---------------------------- MODULE Spec2Model ----------------------------
(***************************************************************************)
(* IssueCraft: the execution engine of crates/storage/redb/src/lib.rs over *)
(* a transactional key-value store with the tables meta, projects, issues  *)
(* and comments.  One action per statement kind of ExecutionEngine::execute*)
(* Records are kept in their stored (field-map) form: a function from      *)
(* field names to JSON values; a typed read decodes that form and fails    *)
(* when it is not a value of the record type.                              *)
(*                                                                         *)
(* The engine itself never writes the meta table, and Database::exists     *)
(* looks up users there.  A store opened with DatabaseType::File may hold  *)
(* a meta table written out of band, so Init offers both the fresh store   *)
(* (no table at all) and a store whose meta table lists the users.         *)
(***************************************************************************)
EXTENDS Integers, Sequences, FiniteSets, TLC

VARIABLES
    tables,     \* names of the tables that exist in the store
    meta,       \* keys of the meta table (user ids)
    projects,   \* projects table: project id -> stored record
    issues,     \* issues table: issue id -> stored record
    comments,   \* comments table: comment id -> stored record
    up,         \* the UserProvider handed to execute
    ap,         \* the AuthorizationProvider handed to execute
    pre,        \* the store as it was when the last statement began
    last,       \* the last statement and its result
    engines     \* per engine instance: where its CREATE ISSUE in flight stands

store == [tables |-> tables, meta |-> meta, projects |-> projects,
          issues |-> issues, comments |-> comments]
vars == <<tables, meta, projects, issues, comments, up, ap, pre, last, engines>>

-----------------------------------------------------------------------------
(* Bounds of the model *)

\* largest issue number the model lets CREATE ISSUE assign
MaxIssueNo == 3
\* number of comment ids the id generator can hand out
MaxComments == 2
\* longest SET list of an UPDATE statement
MaxUpdates == 2
\* longest list of key-value pairs after WITH
MaxClauses == 3
\* a DELETE may have any of its first MaxFault store transactions fail
MaxFault == 3
\* largest LIMIT of a SELECT
MaxLimit == 2
\* largest OFFSET of a SELECT
MaxOffset == 1

-----------------------------------------------------------------------------
(* Identifiers and literals *)

None == "<none>"
ProjectIds == {"p", "q"}
UserIds == {"default", "redb_local"}
REDB_DEFAULT_USER == "redb_local"
TABLE_META == "meta"
TABLE_PROJECTS == "projects"
TABLE_ISSUES == "issues"
TABLE_COMMENTS == "comments"

DigitStr == <<"0", "1", "2", "3", "4", "5", "6", "7", "8", "9">>

\* format!("{}", n) for an unsigned integer
RECURSIVE NatToStr(_)
NatToStr(n) ==
    IF n < 10 THEN DigitStr[n + 1]
    ELSE NatToStr(n \div 10) \o DigitStr[(n % 10) + 1]

\* the decimal digits of n, most significant first
RECURSIVE Digits(_)
Digits(n) ==
    IF n < 10 THEN <<n>> ELSE Append(Digits(n \div 10), n % 10)

\* the digits of u64::MAX = 18446744073709551615
U64MaxDigits == <<1,8,4,4,6,7,4,4,0,7,3,7,0,9,5,5,1,6,1,5>>

\* byte-wise (lexicographic) order of two digit strings, as &str's Ord
RECURSIVE LexLess(_, _)
LexLess(s, t) ==
    IF t = <<>> THEN FALSE
    ELSE IF s = <<>> THEN TRUE
    ELSE IF Head(s) # Head(t) THEN Head(s) < Head(t)
    ELSE LexLess(Tail(s), Tail(t))

\* format!("{project}#{issue_number}")
IssueIdStr(project, n) == project \o "#" \o NatToStr(n)

IssueNumbers == 1..MaxIssueNo
IssueIds == {IssueIdStr(p, n) : p \in ProjectIds, n \in IssueNumbers}
ProjectOf(id) == CHOOSE p \in ProjectIds : \E n \in IssueNumbers : id = IssueIdStr(p, n)
NumberOf(id) == CHOOSE n \in IssueNumbers : \E p \in ProjectIds : id = IssueIdStr(p, n)

\* "C" followed by a nanoid: the k-th id the generator hands out
CommentIdStr(k) == "C" \o NatToStr(k)
CommentIds == {CommentIdStr(k) : k \in 1..MaxComments}

-----------------------------------------------------------------------------
(* JSON values of the stored form (facet_value::Value) *)

Str(s) == [t |-> "string", s |-> s, n |-> 0]
Num(k) == [t |-> "number", s |-> "", n |-> k]
Bool(b) == [t |-> "bool", s |-> IF b THEN "true" ELSE "false", n |-> 0]
Null == [t |-> "null", s |-> "", n |-> 0]
\* the object {"Closed": {"reason": r}}, the stored form of IssueStatus::Closed
ClosedObj(r) == [t |-> "closed", s |-> r, n |-> 0]

EmptyMap == [f \in {} |-> Null]
\* a field of type Option<T> with skip_serializing_if = Option::is_none
OptField(f, v) == IF v = None THEN EmptyMap ELSE (f :> Str(v))


-----------------------------------------------------------------------------
(* Record types and their stored form *)

IssueKinds == {"Epic", "Improvement", "Bug", "Task"}
Priorities == {"Low", "Medium", "High", "Critical"}
CloseReasons == {"Done", "Duplicate", "WontFix"}
OpenStatuses == {"Open", "Assigned", "Blocked"}

ProjectFields == {"description", "owner", "name"}
IssueFields == {"title", "kind", "description", "status", "project", "priority", "assignee"}
CommentFields == {"issue", "created_at", "content", "author"}

\* a principal as a JSON value: a user id, or null when the provider names none
UserValue(u) == IF u = None THEN Null ELSE Str(u)

\* facet_json::to_string of a ProjectInfo
ProjectInfo(owner, description, name) ==
    ("owner" :> UserValue(owner)) @@ OptField("description", description)
        @@ OptField("name", name)

\* facet_json::to_string of an IssueInfo; status is already a JSON value
IssueInfo(title, kind, description, status, project, priority, assignee) ==
    ("title" :> Str(title)) @@ ("kind" :> Str(kind))
        @@ OptField("description", description)
        @@ ("status" :> status) @@ ("project" :> Str(project))
        @@ OptField("priority", priority)
        @@ ("assignee" :> UserValue(assignee))

\* facet_json::to_string of a CommentInfo
CommentInfo(issue, created_at, content, author) ==
    ("issue" :> Str(issue)) @@ ("created_at" :> Str(created_at))
        @@ ("content" :> Str(content)) @@ ("author" :> Str(author))

IsString(r, f) == f \in DOMAIN r /\ r[f].t = "string"
IsOptString(r, f) == f \in DOMAIN r => r[f].t \in {"string", "null"}
IsEnum(r, f, names) == IsString(r, f) /\ r[f].s \in names
IsOptEnum(r, f, names) ==
    f \in DOMAIN r => (r[f].t = "null" \/ (r[f].t = "string" /\ r[f].s \in names))
IsStatus(v) ==
    \/ v.t = "string" /\ v.s \in OpenStatuses
    \/ v.t = "closed" /\ v.s \in CloseReasons

\* facet_json::from_str::<ProjectInfo> succeeds
ProjectDecodable(r) ==
    IsString(r, "owner") /\ IsOptString(r, "description") /\ IsOptString(r, "name")

\* facet_json::from_str::<IssueInfo> succeeds
IssueDecodable(r) ==
    /\ IsString(r, "title") /\ IsEnum(r, "kind", IssueKinds)
    /\ IsOptString(r, "description")
    /\ "status" \in DOMAIN r /\ IsStatus(r["status"])
    /\ IsString(r, "project") /\ IsOptEnum(r, "priority", Priorities)
    /\ IsString(r, "assignee")

\* facet_json::from_str::<CommentInfo> succeeds
CommentDecodable(r) ==
    IsString(r, "issue") /\ IsString(r, "created_at")
        /\ IsString(r, "content") /\ IsString(r, "author")

\* the stored form of a decoded record: an Option field that held null is None
\* and is skipped when the record is written again
Reencode(r) == [f \in {g \in DOMAIN r : r[g] # Null} |-> r[f]]

IsClosed(r) == r["status"].t = "closed"

-----------------------------------------------------------------------------
(* Principal and authorization ports *)

UserProviders ==
    {[kind |-> "SingleUser", id |-> "default"]}
        \cup {[kind |-> "Fixed", id |-> u] : u \in UserIds}
AuthorizationProviders == {"SingleUser", "AllowAll", "DenyAll"}

\* UserProvider::get_user; SingleUserUserProvider knows two tokens only
get_user(provider, token) ==
    IF provider.kind = "SingleUser"
    THEN IF token \in {"<default>", "default"} THEN "default" ELSE None
    ELSE provider.id

\* AuthorizationProvider::check_authorization: "Authorized", "Denied", or
\* "Err" when the provider returns Err(PermissionDenied)
check_authorization(provider, principal) ==
    CASE provider = "SingleUser" ->
            IF principal = "default" THEN "Authorized" ELSE "Err"
      [] provider = "AllowAll" -> "Authorized"
      [] OTHER -> "Denied"

-----------------------------------------------------------------------------
(* Literal values of the query language (IqlValue) *)

IqlString(x) == [k |-> "String", s |-> x, n |-> 0]
\* a number literal; the model keeps to n >= 0, where `n as u64` is n
IqlNumber(x) == [k |-> "Number", s |-> "", n |-> x]
IqlBoolean(b) == [k |-> "Boolean", s |-> IF b THEN "true" ELSE "false", n |-> 0]
IqlNull == [k |-> "Null", s |-> "", n |-> 0]
\* a priority literal, named by its variant
IqlPriority(x) == [k |-> "Priority", s |-> x, n |-> 0]
IqlIdentifier(x) == [k |-> "Identifier", s |-> x, n |-> 0]

\* impl Display for Priority
PriorityDisplay(x) ==
    CASE x = "Critical" -> "CRITICAL"
      [] x = "High" -> "HIGH"
      [] x = "Medium" -> "MEDIUM"
      [] x = "Low" -> "LOW"

\* IqlValue::to_facet
to_facet(v) ==
    CASE v.k = "String" -> Str(v.s)
      [] v.k = "Number" -> Num(v.n)
      [] v.k = "Boolean" -> Bool(v.s = "true")
      [] v.k = "Null" -> Null
      [] v.k = "Priority" -> Str(PriorityDisplay(v.s))
      [] v.k = "Identifier" -> Str(v.s)

FieldUpdate(field, value) == [field |-> field, value |-> value]

\* limit: None of a SelectStatement
NoLimit == -1
\* filter: None and order_by: None of a SelectStatement
NoFilter == [some |-> FALSE, kind |-> "", field |-> "", op |-> "",
             values |-> <<>>]
ComparisonOps ==
    {"Equal", "NotEqual", "GreaterThan", "LessThan", "GreaterThanOrEqual",
     "LessThanOrEqual", "Like"}
\* FilterExpression::Comparison {field, op, value}
Comparison(field, op, value) ==
    [some |-> TRUE, kind |-> "Comparison", field |-> field, op |-> op,
     values |-> <<value>>]
\* FilterExpression::In {field, values}
In(field, values) ==
    [some |-> TRUE, kind |-> "In", field |-> field, op |-> "Equal",
     values |-> values]
NoOrder == [some |-> FALSE, field |-> "", direction |-> "Asc"]
\* WHERE field = 'lit'
Where(field, lit) == Comparison(field, "Equal", IqlString(lit))
\* ORDER BY field direction
OrderBy(field, direction) == [some |-> TRUE, field |-> field, direction |-> direction]
\* SelectStatement; offset: None is offset 0 (unwrap_or(0))
SelectStatement(from, filter, order_by, limit, offset) ==
    [from |-> from, filter |-> filter, order_by |-> order_by, limit |-> limit,
     offset |-> offset]
NoSelect == SelectStatement("", NoFilter, NoOrder, NoLimit, 0)

-----------------------------------------------------------------------------
(* Statements and results *)

NoStmt ==
    [op |-> "None", id |-> None, name |-> None, description |-> None,
     owner |-> None, kind |-> None, title |-> None, priority |-> None,
     assignee |-> None, reason |-> None, content |-> None, updates |-> <<>>,
     fault |-> 0, select |-> NoSelect, point |-> 0, with |-> FALSE,
     clauses |-> <<>>]

\* an Option<String> payload of ExecutionResult: None, or the rendering of a
\* list of entries
NoPayload == [some |-> FALSE, entries |-> <<>>]
Payload(entries) == [some |-> TRUE, entries |-> entries]

\* ExecutionResult::builder(rows)
Rows(n) == [ok |-> TRUE, rows |-> n, err |-> "", a |-> "", b |-> "",
            info |-> NoPayload, data |-> NoPayload]
\* a BackendError with up to two arguments
Err(e, a, b) == [ok |-> FALSE, rows |-> 0, err |-> e, a |-> a, b |-> b,
                 info |-> NoPayload, data |-> NoPayload]
\* ExecutionResultBuilder::with_info
with_info(res, entries) == [res EXCEPT !.info = Payload(entries)]

-----------------------------------------------------------------------------
(* Database: the storage operations, on a store value s *)

get_table(kind) ==
    CASE kind = "Users" -> TABLE_META
      [] kind = "Projects" -> TABLE_PROJECTS
      [] kind = "Issues" -> TABLE_ISSUES
      [] kind = "Comments" -> TABLE_COMMENTS

\* impl Display for EntityType
KindName(kind) ==
    CASE kind = "Users" -> "users"
      [] kind = "Projects" -> "projects"
      [] kind = "Issues" -> "issues"
      [] kind = "Comments" -> "comments"

table_exists(s, table_name) == table_name \in s.tables

TableKeys(s, t) == IF t = TABLE_META THEN s.meta ELSE DOMAIN s[t]

\* exists, had it looked every id up in the meta table
exists_in_meta(s, kind, id) ==
    table_exists(s, TABLE_META) /\ id \in s.meta

exists(s, kind, id) ==
    IF ~table_exists(s, get_table(kind)) THEN FALSE
    ELSE id \in TableKeys(s, get_table(kind))

\* the keys of the range min..max of get_next_issue_id, min = "<project>#" and
\* max = "<project>#18446744073709551615" (exclusive), in the order of &str:
\* a key lies in it iff it starts with "<project>#" and its digits sort
\* before the digits of u64::MAX
InIssueRange(id, project) ==
    ProjectOf(id) = project /\ LexLess(Digits(NumberOf(id)), U64MaxDigits)

get_next_issue_id(s, project) ==
    IF ~table_exists(s, TABLE_ISSUES) THEN 1
    ELSE Cardinality({id \in DOMAIN s.issues : InIssueRange(id, project)}) + 1

\* one write transaction: open (and so create) the table, insert, commit
set_from_value(s, kind, id, info) ==
    LET t == get_table(kind)
    IN  [s EXCEPT !.tables = @ \cup {t}, ![t] = (id :> info) @@ @]

\* one write transaction: open (and so create) the table, remove, commit
delete(s, kind, id) ==
    LET t == get_table(kind)
    IN  [s EXCEPT !.tables = @ \cup {t},
                  ![t] = [k \in (DOMAIN @) \ {id} |-> @[k]]]

Decodable(kind, r) ==
    CASE kind = "Projects" -> ProjectDecodable(r)
      [] kind = "Issues" -> IssueDecodable(r)
      [] kind = "Comments" -> CommentDecodable(r)

\* get_as::<ID, Value>: the error of reading id as a field-map, or Rows(0)
\* when the read succeeds.  A read transaction cannot open a missing table.
get_as(s, kind, id) ==
    IF ~table_exists(s, get_table(kind))
    THEN Err("ImplementationSpecific", "table does not exist", get_table(kind))
    ELSE IF id \notin DOMAIN s[get_table(kind)]
    THEN Err("ItemNotFound", KindName(kind), id)
    ELSE Rows(0)

\* get: get_as::<ID, ID::EntityType>, which also has to decode the record
get(s, kind, id) ==
    IF ~get_as(s, kind, id).ok THEN get_as(s, kind, id)
    ELSE IF ~Decodable(kind, s[get_table(kind)][id])
    THEN Err("ImplementationSpecific", "deserialize", id)
    ELSE Rows(0)

\* FieldUpdate::apply_to, when the field-map holds the field
apply_to(value, update) == (update.field :> to_facet(update.value)) @@ value

\* the loop of Database::update over the field-map: the updated map, or the
\* first field apply_to does not find
RECURSIVE ApplyUpdates(_, _)
ApplyUpdates(value, updates) ==
    IF updates = <<>> THEN [ok |-> TRUE, value |-> value, field |-> ""]
    ELSE IF Head(updates).field \notin DOMAIN value
    THEN [ok |-> FALSE, value |-> value, field |-> Head(updates).field]
    ELSE ApplyUpdates(apply_to(value, Head(updates)), Tail(updates))

\* Database::update: the result and the store after it
update(s, kind, id, updates) ==
    IF ~get_as(s, kind, id).ok THEN [res |-> get_as(s, kind, id), s |-> s]
    ELSE LET applied == ApplyUpdates(s[get_table(kind)][id], updates)
         IN  IF ~applied.ok
             THEN [res |-> Err("FieldNotFound", applied.field, ""), s |-> s]
             ELSE [res |-> Rows(1),
                   s |-> set_from_value(s, kind, id, applied.value)]

\* the strings the model compares, in the order of their bytes
StringOrder ==
    <<"Critical", "HIGH", "High", "LOW", "Low", "Medium", "bang", "boom">>
StringRank(x) == CHOOSE k \in 1..Len(StringOrder) : StringOrder[k] = x

\* v1.partial_cmp(v2) for two JSON values: strings by their bytes, numbers
\* by their value; two values of different types are not ordered
partial_cmp(v1, v2) ==
    CASE v1.t = "string" /\ v2.t = "string" ->
            IF v1.s = v2.s THEN "Equal"
            ELSE IF StringRank(v1.s) < StringRank(v2.s) THEN "Less"
            ELSE "Greater"
      [] v1.t = "number" /\ v2.t = "number" ->
            IF v1.n = v2.n THEN "Equal"
            ELSE IF v1.n < v2.n THEN "Less" ELSE "Greater"
      [] OTHER -> IF v1 = v2 THEN "Equal" ELSE "None"

\* ComparisonOp::Like: '%' stands for ".*" and the whole string has to match;
\* the model keeps to the pattern "%" and to patterns without '%'
LikeMatch(field_value, pattern) ==
    LET field_str == IF field_value.t = "string" THEN field_value.s ELSE ""
    IN  pattern.k = "String" /\ (pattern.s = "%" \/ field_str = pattern.s)

\* FilterExpression::compare_values
compare_values(field_value, op, filter_value) ==
    CASE op = "Equal" -> field_value = to_facet(filter_value)
      [] op = "NotEqual" -> field_value # to_facet(filter_value)
      [] op = "GreaterThan" ->
            partial_cmp(field_value, to_facet(filter_value)) = "Greater"
      [] op = "LessThan" ->
            partial_cmp(field_value, to_facet(filter_value)) = "Less"
      [] op = "GreaterThanOrEqual" ->
            partial_cmp(field_value, to_facet(filter_value))
                \in {"Greater", "Equal"}
      [] op = "LessThanOrEqual" ->
            partial_cmp(field_value, to_facet(filter_value))
                \in {"Less", "Equal"}
      [] op = "Like" -> LikeMatch(field_value, filter_value)

\* FilterExpression::matches, for Comparison and In
matches(filter, id, value) ==
    CASE filter.kind = "Comparison" ->
            IF filter.field = "id"
            THEN compare_values(Str(id), filter.op, filter.values[1])
            ELSE IF filter.field \notin DOMAIN value THEN FALSE
            ELSE compare_values(value[filter.field], filter.op,
                                filter.values[1])
      [] filter.kind = "In" ->
            IF filter.field \notin DOMAIN value THEN FALSE
            ELSE \E i \in 1..Len(filter.values) :
                    compare_values(value[filter.field], "Equal",
                                   filter.values[i])

\* FilterExpression::matches for Comparison{field, Equal, String(lit)}
matches_equal(id, value, field, lit) == matches(Where(field, lit), id, value)

\* the order of table.iter(): keys ascending.  Comment keys are "C<k>" with
\* one-digit k in the model, issue keys of one project sort by their digits.
KeyBefore(a, b) ==
    IF a \in ProjectIds /\ b \in ProjectIds THEN a = "p" /\ b = "q"
    ELSE IF a \in CommentIds /\ b \in CommentIds
    THEN (CHOOSE k \in 1..MaxComments : a = CommentIdStr(k))
            < (CHOOSE k \in 1..MaxComments : b = CommentIdStr(k))
    ELSE IF ProjectOf(a) # ProjectOf(b) THEN ProjectOf(a) = "p"
    ELSE LexLess(Digits(NumberOf(a)), Digits(NumberOf(b)))

RECURSIVE SortedKeys(_)
SortedKeys(S) ==
    IF S = {} THEN <<>>
    ELSE LET first == CHOOSE a \in S : \A b \in S \ {a} : KeyBefore(a, b)
         IN  <<first>> \o SortedKeys(S \ {first})

\* .skip(offset).take(limit) over the rows of the iteration
Window(keys, limit, offset) ==
    LET last_row == IF limit = NoLimit \/ offset + limit > Len(keys)
                    THEN Len(keys) ELSE offset + limit
    IN  SubSeq(keys, offset + 1, last_row)

\* v1.partial_cmp(v2) = Less, for two JSON strings
ValueLess(v1, v2) == StringRank(v1.s) < StringRank(v2.s)

\* the closure of sort_by answers Less for the rows a and b of table t: a row
\* that lacks the field is Less than one that has it; the direction of
\* ORDER BY is not looked at
SortLess(t, order_by, a, b) ==
    LET has_a == order_by.field \in DOMAIN t[a]
        has_b == order_by.field \in DOMAIN t[b]
    IN  CASE ~has_a /\ ~has_b -> FALSE
          [] has_a /\ ~has_b -> FALSE
          [] ~has_a /\ has_b -> TRUE
          [] OTHER -> ValueLess(t[a][order_by.field], t[b][order_by.field])

\* values.sort_by(..): a stable sort, so the first of the least rows leads
RECURSIVE sort_by(_, _, _)
sort_by(t, order_by, keys) ==
    IF keys = <<>> THEN <<>>
    ELSE LET Least(i) == \A j \in 1..Len(keys) :
                            ~SortLess(t, order_by, keys[j], keys[i])
             i == CHOOSE i \in 1..Len(keys) :
                    Least(i) /\ \A j \in 1..(i - 1) : ~Least(j)
             rest == [j \in 1..(Len(keys) - 1) |->
                        IF j < i THEN keys[j] ELSE keys[j + 1]]
         IN  <<keys[i]>> \o sort_by(t, order_by, rest)

Sorted(t, order_by, keys) ==
    IF order_by.some THEN sort_by(t, order_by, keys) ELSE keys

\* .filter(|(k, v)| ..): the rows the WHERE clause lets through
RECURSIVE Filtered(_, _, _)
Filtered(t, filter, keys) ==
    IF keys = <<>> THEN <<>>
    ELSE LET k == Head(keys)
             keep == ~filter.some
                        \/ matches(filter, k, t[k])
         IN  (IF keep THEN <<k>> ELSE <<>>) \o Filtered(t, filter, Tail(keys))

\* the rows of a SELECT, had WHERE been applied before ORDER BY, OFFSET and
\* LIMIT
select_rows_filter_first(t, select) ==
    Window(Sorted(t, select.order_by,
                  Filtered(t, select.filter, SortedKeys(DOMAIN t))),
           select.limit, select.offset)

\* the pipeline of get_all over the table iteration: skip, take, sort, filter
select_rows(t, select) ==
    Filtered(t, select.filter,
             Sorted(t, select.order_by,
                    Window(SortedKeys(DOMAIN t), select.limit, select.offset)))

\* get_all::<K>: the keys of the selected rows in result order, or an error
\* when a selected row does not decode as K::EntityType
get_all(s, K, select) ==
    IF ~table_exists(s, get_table(select.from)) THEN [ok |-> TRUE, keys |-> <<>>]
    ELSE LET t == s[get_table(select.from)]
             keys == select_rows(t, select)
         IN  IF \E i \in 1..Len(keys) : ~Decodable(K, t[keys[i]])
             THEN [ok |-> FALSE, keys |-> <<>>]
             ELSE [ok |-> TRUE, keys |-> keys]

-----------------------------------------------------------------------------
(* DELETE: a cascade of separate transactions.  A run r carries the store  *)
(* s, the rows counted so far, ok = no operation has failed, and f: the    *)
(* f-th store transaction from here fails (0: none does).                  *)

Run(s, fault) == [s |-> s, rows |-> 0, ok |-> TRUE, f |-> fault]
Failed(r) == [r EXCEPT !.ok = FALSE]
\* one store transaction went through
Tick(r) == [r EXCEPT !.f = IF @ = 0 THEN 0 ELSE @ - 1]

\* delete followed by result.inc(), for the row id of kind
delete_row(r, kind, id) ==
    IF r.f = 1 THEN Failed(r)
    ELSE [Tick(r) EXCEPT !.s = delete(@, kind, id), !.rows = @ + 1]

delete_comment(r, id) == delete_row(r, "Comments", id)

RECURSIVE delete_comments(_, _)
delete_comments(r, ids) ==
    IF ids = <<>> \/ ~r.ok THEN r
    ELSE delete_comments(delete_comment(r, Head(ids)), Tail(ids))

\* delete_issue, had it read the issues table as delete_project reads comments
delete_issue_from_issues == "Issues"

\* the table delete_issue reads for the comments of the issue
delete_issue_from == "Comments"

delete_issue(r, id) ==
    LET r1 == delete_row(r, "Issues", id)
        found == get_all(r1.s, "Comments",
                         SelectStatement(delete_issue_from, Where("issue", id),
                                         NoOrder, NoLimit, 0))
    IN  IF ~r1.ok THEN r1
        ELSE IF r1.f = 1 \/ ~found.ok THEN Failed(r1)
        ELSE delete_comments(Tick(r1), found.keys)

RECURSIVE delete_issues(_, _)
delete_issues(r, ids) ==
    IF ids = <<>> \/ ~r.ok THEN r
    ELSE delete_issues(delete_issue(r, Head(ids)), Tail(ids))

\* the table and the field delete_project reads for the issues of the project
delete_project_from == "Comments"
delete_project_field == "issue"

delete_project(r, id) ==
    LET r1 == delete_row(r, "Projects", id)
        found == get_all(r1.s, "Issues",
                         SelectStatement(delete_project_from,
                                         Where(delete_project_field, id),
                                         NoOrder, NoLimit, 0))
    IN  IF ~r1.ok THEN r1
        ELSE IF r1.f = 1 \/ ~found.ok THEN Failed(r1)
        ELSE delete_issues(Tick(r1), found.keys)

-----------------------------------------------------------------------------
(* ExecutionEngine::execute *)

\* the statement ends: its result is returned and the store is s
Finish(stmt, res, s) ==
    /\ tables' = s.tables
    /\ meta' = s.meta
    /\ projects' = s.projects
    /\ issues' = s.issues
    /\ comments' = s.comments
    /\ pre' = store
    /\ last' = [stmt |-> stmt, res |-> res]
    /\ UNCHANGED <<up, ap, engines>>

\* the entries get_all returns for the keys: key and typed record
RECURSIVE Entries(_, _)
Entries(t, keys) ==
    IF keys = <<>> THEN <<>>
    ELSE <<[key |-> Head(keys), value |-> Reencode(t[Head(keys)])]>>
            \o Entries(t, Tail(keys))

\* SELECT * FROM from [WHERE ..] [ORDER BY ..] [LIMIT ..] [OFFSET ..]
Select(select) ==
    LET stmt == [NoStmt EXCEPT !.op = "Select", !.select = select]
        found == get_all(store, select.from, select)
    IN  IF select.from = "Users"
        THEN Finish(stmt, Err("NotSupported", "", ""), store)
        ELSE IF ~found.ok
        THEN Finish(stmt, Err("ImplementationSpecific", "deserialize", ""), store)
        ELSE Finish(stmt,
                    with_info(Rows(0),
                              IF table_exists(store, get_table(select.from))
                              THEN Entries(store[get_table(select.from)],
                                           found.keys)
                              ELSE <<>>),
                    store)

CreateProject(project_id, name, description, owner) ==
    LET stmt == [NoStmt EXCEPT !.op = "CreateProject", !.id = project_id,
                               !.name = name, !.description = description,
                               !.owner = owner]
        who == IF owner # None THEN owner ELSE get_user(up, "")
    IN  IF exists(store, "Projects", project_id)
        THEN Finish(stmt, Err("ProjectAlreadyExists", project_id, ""), store)
        ELSE IF ~exists(store, "Users", who)
        THEN Finish(stmt, Err("UserNotFound", who, ""), store)
        ELSE Finish(stmt, Rows(1),
                    set_from_value(store, "Projects", project_id,
                                   ProjectInfo(who, description, name)))

CreateIssue(project, kind, title, description, priority, assignee) ==
    LET stmt == [NoStmt EXCEPT !.op = "CreateIssue", !.id = project,
                               !.kind = kind, !.title = title,
                               !.description = description,
                               !.priority = priority, !.assignee = assignee]
        who == IF assignee # None THEN assignee ELSE get_user(up, "")
        issue_number == get_next_issue_id(store, project)
    IN  IF ~exists(store, "Projects", project)
        THEN Finish(stmt, Err("ItemNotFound", "projects", project), store)
        ELSE /\ issue_number <= MaxIssueNo
             /\ Finish(stmt, Rows(1),
                       set_from_value(store, "Issues",
                                      IssueIdStr(project, issue_number),
                                      IssueInfo(title, kind, description,
                                                Str("Open"), project, priority,
                                                who)))

\* UPDATE PROJECT id SET ... and UPDATE ISSUE id SET ...
Update(kind, id, updates) ==
    LET stmt == [NoStmt EXCEPT !.op = "Update", !.kind = kind, !.id = id,
                               !.updates = updates]
        done == update(store, kind, id, updates)
    IN  IF ~done.res.ok THEN Finish(stmt, done.res, store)
        ELSE Finish(stmt, Rows(1), done.s)

\* the author check of UPDATE COMMENT, had it let every principal through
any_author(comment_info, user) == TRUE

\* self.get(id)?.author != user, negated: the principal wrote the comment
is_author(comment_info, user) == comment_info["author"] = UserValue(user)

\* UPDATE COMMENT id SET ...
UpdateComment(id, updates) ==
    LET stmt == [NoStmt EXCEPT !.op = "Update", !.kind = "Comments", !.id = id,
                               !.updates = updates]
        user == get_user(up, "")
        read == get(store, "Comments", id)
        decision == check_authorization(ap, user)
        done == update(store, "Comments", id, updates)
    IN  IF ~read.ok THEN Finish(stmt, read, store)
        ELSE IF decision = "Err"
        THEN Finish(stmt, Err("PermissionDenied", "User is not authorized", user),
                    store)
        ELSE IF decision # "Authorized"
        THEN Finish(stmt, Err("PermissionDenied",
                              "User is not authorized to edit comments", ""),
                    store)
        ELSE IF ~is_author(store.comments[id], user)
        THEN Finish(stmt, Err("PermissionDenied",
                              "Cannot edit comments authored by other users", ""),
                    store)
        ELSE Finish(stmt, done.res, done.s)

\* DELETE PROJECT id, DELETE ISSUE id, DELETE COMMENT id; the fault-th store
\* transaction of the statement fails (0: none)
Delete(kind, id, fault) ==
    LET stmt == [NoStmt EXCEPT !.op = "Delete", !.kind = kind, !.id = id,
                               !.fault = fault]
        r == CASE kind = "Projects" -> delete_project(Run(store, fault), id)
               [] kind = "Issues" -> delete_issue(Run(store, fault), id)
               [] kind = "Comments" -> delete_comment(Run(store, fault), id)
    IN  \* a fault that lies past the last transaction never happens
        /\ fault # 0 => ~r.ok \/ r.f = 0
        /\ IF r.ok THEN Finish(stmt, Rows(r.rows), r.s)
           ELSE Finish(stmt, Err("ImplementationSpecific", "store", ""), r.s)

Assign(issue_id, assignee) ==
    LET stmt == [NoStmt EXCEPT !.op = "Assign", !.id = issue_id,
                               !.assignee = assignee]
        read == get(store, "Issues", issue_id)
    IN  IF ~read.ok THEN Finish(stmt, read, store)
        ELSE Finish(stmt, Rows(1),
                    set_from_value(store, "Issues", issue_id,
                        [Reencode(store.issues[issue_id])
                            EXCEPT !["assignee"] = Str(assignee)]))

\* IssueAlreadyClosed, had it reported the reason of the statement
statement_reason(issue_info, reason) == IF reason = None THEN "Done" ELSE reason

\* the reason IssueAlreadyClosed reports: `if let Closed { reason }` binds the
\* stored reason, hiding the statement's
already_closed_reason(issue_info, reason) == issue_info["status"].s

Close(issue_id, reason) ==
    LET stmt == [NoStmt EXCEPT !.op = "Close", !.id = issue_id,
                               !.reason = reason]
        read == get(store, "Issues", issue_id)
    IN  IF ~read.ok THEN Finish(stmt, read, store)
        ELSE IF IsClosed(store.issues[issue_id])
        THEN Finish(stmt,
                    Err("IssueAlreadyClosed", issue_id,
                        already_closed_reason(store.issues[issue_id], reason)),
                    store)
        ELSE Finish(stmt, Rows(1),
                    set_from_value(store, "Issues", issue_id,
                        [Reencode(store.issues[issue_id])
                            EXCEPT !["status"] =
                                ClosedObj(IF reason = None THEN "Done"
                                          ELSE reason)]))

\* the guard of REOPEN, had it let only an Open issue through as a no-op
reopen_unless_open(issue_info) == issue_info["status"] = Str("Open")

\* the guard of REOPEN: the issue is not Closed, nothing to do
reopen_is_noop(issue_info) == ~IsClosed(issue_info)

Reopen(issue_id) ==
    LET stmt == [NoStmt EXCEPT !.op = "Reopen", !.id = issue_id]
        read == get(store, "Issues", issue_id)
    IN  IF ~read.ok THEN Finish(stmt, read, store)
        ELSE IF reopen_is_noop(store.issues[issue_id])
        THEN Finish(stmt, Rows(0), store)
        ELSE Finish(stmt, Rows(1),
                    set_from_value(store, "Issues", issue_id,
                        [Reencode(store.issues[issue_id])
                            EXCEPT !["status"] = Str("Open")]))

\* COMMENT ON ISSUE issue_id WITH content; new_id is the id nanoid!() yields,
\* taken to be unused, and the clock reads "now"
Comment(issue_id, content, new_id) ==
    LET stmt == [NoStmt EXCEPT !.op = "Comment", !.id = issue_id,
                               !.content = content]
    IN  IF ~exists(store, "Issues", issue_id)
        THEN Finish(stmt, Err("ItemNotFound", "issues", issue_id), store)
        ELSE /\ new_id \notin DOMAIN comments
             /\ Finish(stmt, Rows(1),
                       set_from_value(store, "Comments", new_id,
                                      CommentInfo(issue_id, "now", content,
                                                  REDB_DEFAULT_USER)))

-----------------------------------------------------------------------------
(* Parser: CREATE PROJECT <id> [WITH <key> <value> ...].  The clauses after *)
(* WITH are the keyword tokens Name, Description and Owner, each followed   *)
(* by a value token of the kind the parser expects.                         *)

Clause(key, value) == [key |-> key, value |-> value]

\* the loop of parse_create_project over the clauses; acc carries name,
\* description, owner and the flag started
RECURSIVE parse_clauses(_, _)
parse_clauses(acc, clauses) ==
    IF clauses = <<>> THEN acc
    ELSE LET c == Head(clauses)
             next == CASE c.key = "Name" ->
                            [acc EXCEPT !.name = c.value, !.started = FALSE]
                       [] c.key = "Description" ->
                            [acc EXCEPT !.description = c.value,
                                        !.started = FALSE]
                       [] c.key = "Owner" -> [acc EXCEPT !.owner = c.value]
         IN  parse_clauses(next, Tail(clauses))

\* Parser::parse_create_project: the fields of the statement, ok = FALSE for
\* MissingClause
parse_create_project(with, clauses) ==
    LET acc == parse_clauses([name |-> None, description |-> None,
                              owner |-> None, started |-> TRUE],
                             IF with THEN clauses ELSE <<>>)
    IN  [ok |-> ~(with /\ acc.started), name |-> acc.name,
         description |-> acc.description, owner |-> acc.owner]

\* parse_query("CREATE PROJECT <project_id> [WITH <clauses>]"); nothing is
\* executed
ParseCreateProject(project_id, with, clauses) ==
    LET parsed == parse_create_project(with, clauses)
        stmt == [NoStmt EXCEPT !.op = "ParseCreateProject", !.id = project_id,
                               !.with = with, !.clauses = clauses,
                               !.name = parsed.name,
                               !.description = parsed.description,
                               !.owner = parsed.owner]
    IN  IF ~parsed.ok
        THEN Finish([NoStmt EXCEPT !.op = "ParseCreateProject",
                                   !.id = project_id, !.with = with,
                                   !.clauses = clauses],
                    Err("MissingClause",
                        "at least one of NAME, DESCRIPTION, or OWNER", ""),
                    store)
        ELSE Finish(stmt, Rows(0), store)

-----------------------------------------------------------------------------
(* Several engine instances on one store.  A statement is a sequence of     *)
(* store transactions; between two of them a transaction of another         *)
(* instance can run.  CREATE ISSUE is: exists (read), get_next_issue_id     *)
(* (read), set (write).                                                     *)

Engines == {"a", "b"}

\* an engine with no statement in flight; id is the issue id its last CREATE
\* ISSUE returned rows = 1 for, overlapped whether that statement ran while
\* a statement of another engine was in flight
Idle == [pc |-> "idle", project |-> None, title |-> None, number |-> 0,
         id |-> None, overlapped |-> FALSE]

InFlight(e) == engines[e].pc # "idle"

\* engine e begins CREATE ISSUE OF KIND BUG IN project WITH TITLE title
\* ASSIGNEE default: the read transaction of self.exists(project)
BeginCreateIssue(e, project, title) ==
    LET stmt == [NoStmt EXCEPT !.op = "CreateIssue", !.id = project,
                               !.kind = "Bug", !.title = title,
                               !.assignee = "default"]
        others == \E o \in Engines \ {e} : InFlight(o)
    IN  /\ ~InFlight(e)
        /\ IF ~exists(store, "Projects", project)
           THEN /\ engines' = [engines EXCEPT ![e] = Idle]
                /\ last' = [stmt |-> stmt,
                            res |-> Err("ItemNotFound", "projects", project)]
                /\ pre' = store
           ELSE /\ engines' =
                    [o \in Engines |->
                        IF o = e
                        THEN [Idle EXCEPT !.pc = "numbering",
                                          !.project = project,
                                          !.title = title,
                                          !.overlapped = others]
                        ELSE IF InFlight(o)
                        THEN [engines[o] EXCEPT !.overlapped = TRUE]
                        ELSE engines[o]]
                /\ UNCHANGED <<pre, last>>
        /\ UNCHANGED <<tables, meta, projects, issues, comments, up, ap>>

\* engine e: the read transaction of get_next_issue_id
NumberIssue(e) ==
    /\ engines[e].pc = "numbering"
    /\ get_next_issue_id(store, engines[e].project) <= MaxIssueNo
    /\ engines' = [engines EXCEPT
                    ![e].pc = "writing",
                    ![e].number = get_next_issue_id(store, engines[e].project)]
    /\ UNCHANGED <<tables, meta, projects, issues, comments, up, ap, pre, last>>

\* engine e: the write transaction of self.set, and Ok(ExecutionResult::one())
WriteIssue(e) ==
    LET st == engines[e]
        id == IssueIdStr(st.project, st.number)
        stmt == [NoStmt EXCEPT !.op = "CreateIssue", !.id = st.project,
                               !.kind = "Bug", !.title = st.title,
                               !.assignee = "default"]
        s == set_from_value(store, "Issues", id,
                            IssueInfo(st.title, "Bug", None, Str("Open"),
                                      st.project, None, "default"))
    IN  /\ st.pc = "writing"
        /\ tables' = s.tables
        /\ issues' = s.issues
        /\ pre' = store
        /\ last' = [stmt |-> stmt, res |-> Rows(1)]
        /\ engines' = [engines EXCEPT ![e] = [Idle EXCEPT
                                                !.id = id,
                                                !.overlapped = st.overlapped]]
        /\ UNCHANGED <<meta, projects, comments, up, ap>>

\* the texts of number literals
NumberTexts == {NatToStr(k) : k \in 1..MaxComments}

\* the token the lexer makes of a word: digits are a Number; a word that
\* starts with a letter, as every "C<nanoid>" does, is an Identifier
Tokenize(text) ==
    IF text \in NumberTexts THEN [kind |-> "Number", text |-> text]
    ELSE [kind |-> "Identifier", text |-> text]

\* Parser::parse_identifier: accepts an Identifier token
parse_identifier(token) == token.kind = "Identifier"
\* Parser::parse_number: accepts a Number token
parse_number(token) == token.kind = "Number"

UnexpectedToken(expected, token) == Err("UnexpectedToken", expected, token.kind)

\* parse_query("UPDATE COMMENT <text> SET ..."): the target is read with
\* parse_identifier; nothing is executed
ParseUpdateComment(text) ==
    LET stmt == [NoStmt EXCEPT !.op = "ParseUpdate", !.kind = "Comments",
                               !.id = text]
    IN  IF parse_identifier(Tokenize(text)) THEN Finish(stmt, Rows(0), store)
        ELSE Finish(stmt,
                    UnexpectedToken("identifier for <COMMENT>", Tokenize(text)),
                    store)

\* parse_query("DELETE COMMENT <text>"): the target is read with
\* parse_number; nothing is executed
ParseDeleteComment(text) ==
    LET stmt == [NoStmt EXCEPT !.op = "ParseDelete", !.kind = "Comments",
                               !.id = text]
    IN  IF parse_number(Tokenize(text)) THEN Finish(stmt, Rows(0), store)
        ELSE Finish(stmt, UnexpectedToken("number", Tokenize(text)), store)

-----------------------------------------------------------------------------
(* Cancellation.  execute is an async fn: it can be dropped at an .await,   *)
(* and only there.  The steps of a handler are listed in the order of the  *)
(* code; "await" is a suspension point, the steps of WriteSteps commit a   *)
(* write transaction.                                                      *)

WriteSteps == {"set", "update", "delete"}

\* CreateStatement::Project: exists, get_user (when no OWNER is given), exists,
\* set
CreateProjectSteps(owner) ==
    <<"exists">> \o (IF owner = None THEN <<"await">> ELSE <<>>)
        \o <<"exists", "set">>

\* CreateStatement::Issue: exists, get_user (when no ASSIGNEE is given),
\* get_next_issue_id, set
CreateIssueSteps(assignee) ==
    <<"exists">> \o (IF assignee = None THEN <<"await">> ELSE <<>>)
        \o <<"get_next_issue_id", "set">>

\* UPDATE COMMENT, had it written the update before asking the provider
UpdateCommentSteps_update_first == <<"await", "get", "update", "await", "get">>

\* UpdateTarget::Comment: get_user, get, check_authorization, get, update
UpdateCommentSteps == <<"await", "get", "await", "get", "update">>

\* the positions of the suspension points in a list of steps
Awaits(steps) == {i \in 1..Len(steps) : steps[i] = "await"}
\* the position of the point-th suspension point
AwaitAt(steps, point) ==
    CHOOSE i \in Awaits(steps) :
        Cardinality({j \in Awaits(steps) : j <= i}) = point

\* the future was dropped: nothing is returned
Cancelled == Err("<cancelled>", "", "")

\* the handler with these steps is dropped at its point-th suspension point;
\* written is the store its write step commits
CancelAt(stmt, steps, point, written) ==
    /\ point \in 1..Cardinality(Awaits(steps))
    /\ Finish([stmt EXCEPT !.point = point], Cancelled,
              IF \E i \in 1..(AwaitAt(steps, point) - 1) : steps[i] \in WriteSteps
              THEN written ELSE store)

\* CREATE PROJECT dropped inside get_user
CancelCreateProject(project_id, name, description, owner, point) ==
    LET stmt == [NoStmt EXCEPT !.op = "CreateProject", !.id = project_id,
                               !.name = name, !.description = description,
                               !.owner = owner]
    IN  /\ ~exists(store, "Projects", project_id)
        /\ CancelAt(stmt, CreateProjectSteps(owner), point,
                    set_from_value(store, "Projects", project_id,
                                   ProjectInfo(get_user(up, ""), description,
                                               name)))

\* CREATE ISSUE dropped inside get_user
CancelCreateIssue(project, kind, title, description, priority, assignee, point) ==
    LET stmt == [NoStmt EXCEPT !.op = "CreateIssue", !.id = project,
                               !.kind = kind, !.title = title,
                               !.description = description,
                               !.priority = priority, !.assignee = assignee]
        issue_number == get_next_issue_id(store, project)
    IN  /\ exists(store, "Projects", project)
        /\ issue_number <= MaxIssueNo
        /\ CancelAt(stmt, CreateIssueSteps(assignee), point,
                    set_from_value(store, "Issues",
                                   IssueIdStr(project, issue_number),
                                   IssueInfo(title, kind, description,
                                             Str("Open"), project, priority,
                                             get_user(up, ""))))

\* UPDATE COMMENT dropped inside get_user (point 1) or inside
\* check_authorization (point 2, reached when the comment was read)
CancelUpdateComment(id, updates, point) ==
    LET stmt == [NoStmt EXCEPT !.op = "Update", !.kind = "Comments", !.id = id,
                               !.updates = updates]
    IN  /\ point > 1 => get(store, "Comments", id).ok
        /\ CancelAt(stmt, UpdateCommentSteps, point,
                    update(store, "Comments", id, updates).s)

-----------------------------------------------------------------------------
(* Specifications.  Each takes the statements one group of properties is   *)
(* about, with inputs from small sets.                                     *)

\* the state after Database::new: an in-memory store has no table; a store
\* file may come with a meta table that lists the users
InitOf(UPs, APs) ==
    /\ \/ tables = {} /\ meta = {}
       \/ tables = {TABLE_META} /\ meta = UserIds
    /\ projects = EmptyMap
    /\ issues = EmptyMap
    /\ comments = EmptyMap
    /\ up \in UPs
    /\ ap \in APs
    /\ pre = [tables |-> tables, meta |-> meta, projects |-> EmptyMap,
              issues |-> EmptyMap, comments |-> EmptyMap]
    /\ last = [stmt |-> NoStmt, res |-> Rows(0)]
    /\ engines = [e \in Engines |-> Idle]

SingleUserProvider == [kind |-> "SingleUser", id |-> "default"]
FixedProvider(u) == [kind |-> "Fixed", id |-> u]

\* the SET lists of length 1..MaxUpdates over a set of field updates
UpdateLists(pairs) ==
    UNION {[1..n -> pairs] : n \in 1..MaxUpdates}

(* CREATE PROJECT and CREATE ISSUE only *)
InitCreate == InitOf(UserProviders, {"SingleUser"})
NextCreate ==
    \/ \E p \in ProjectIds, n \in {None, "Backend"}, o \in {None, "default"} :
            CreateProject(p, n, None, o)
    \/ \E p \in ProjectIds, pr \in {None, "High"} :
            CreateIssue(p, "Bug", "boom", None, pr, "default")
SpecCreate == InitCreate /\ [][NextCreate]_vars

(* the life of a project: CREATE, UPDATE, DELETE PROJECT *)
ProjectUpdates == {FieldUpdate("name", IqlString("Renamed"))}
InitProject == InitOf(UserProviders, {"SingleUser"})
NextProject ==
    \/ \E p \in ProjectIds, n \in {None, "Backend"}, d \in {None, "about"},
          o \in {None} \cup UserIds :
            CreateProject(p, n, d, o)
    \/ \E p \in ProjectIds, u \in UpdateLists(ProjectUpdates) :
            Update("Projects", p, u)
    \/ \E p \in ProjectIds : Delete("Projects", p, 0)
SpecProject == InitProject /\ [][NextProject]_vars

(* DELETE and what it cascades over *)
DeleteIssueIds == {IssueIdStr("p", n) : n \in 1..2}
DeleteCommentUpdates ==
    {FieldUpdate("content", IqlNumber(5)), FieldUpdate("issue", IqlString("p"))}
InitDelete == InitOf({FixedProvider(REDB_DEFAULT_USER)}, {"AllowAll"})
NextDelete ==
    \/ \E n \in {None, "Backend"} : CreateProject("p", n, None, "default")
    \/ CreateIssue("p", "Bug", "boom", None, None, "default")
    \/ \E i \in DeleteIssueIds, c \in CommentIds : Comment(i, "hello", c)
    \/ \E c \in CommentIds, u \in DeleteCommentUpdates : UpdateComment(c, <<u>>)
    \/ \E f \in 0..MaxFault : Delete("Projects", "p", f)
    \/ \E i \in DeleteIssueIds, f \in 0..MaxFault : Delete("Issues", i, f)
    \/ \E c \in CommentIds, f \in 0..MaxFault : Delete("Comments", c, f)
SpecDelete == InitDelete /\ [][NextDelete]_vars

(* the life of an issue: CREATE, ASSIGN, CLOSE, REOPEN, UPDATE ISSUE *)
LifecycleIssueIds == {IssueIdStr("p", n) : n \in 1..2}
LifecycleUpdates ==
    {FieldUpdate("status", IqlString("Assigned")),
     FieldUpdate("status", IqlIdentifier("Blocked")),
     FieldUpdate("title", IqlNumber(5))}
InitLifecycle == InitOf({SingleUserProvider, FixedProvider("default")}, {"SingleUser"})
NextLifecycle ==
    \/ CreateProject("p", None, None, "default")
    \/ \E a \in {None, "default"} :
            CreateIssue("p", "Bug", "boom", None, None, a)
    \/ \E i \in LifecycleIssueIds : Assign(i, "redb_local")
    \/ \E i \in LifecycleIssueIds, r \in {None, "WontFix", "Duplicate"} : Close(i, r)
    \/ \E i \in LifecycleIssueIds : Reopen(i)
    \/ \E i \in LifecycleIssueIds, u \in LifecycleUpdates : Update("Issues", i, <<u>>)
SpecLifecycle == InitLifecycle /\ [][NextLifecycle]_vars

(* UPDATE of projects, issues and comments *)
UpdateIssueIds == {IssueIdStr("p", 1)}
UpdateProjectPairs ==
    {FieldUpdate("name", IqlString("Renamed")),
     FieldUpdate("description", IqlString("about")),
     FieldUpdate("colour", IqlString("red"))}
UpdateIssuePairs ==
    {FieldUpdate("priority", IqlPriority("High")),
     FieldUpdate("title", IqlString("bang")),
     FieldUpdate("labels", IqlString("x"))}
UpdateCommentPairs ==
    {FieldUpdate("content", IqlString("edited")),
     FieldUpdate("likes", IqlNumber(1))}
InitUpdate ==
    InitOf({SingleUserProvider, FixedProvider(REDB_DEFAULT_USER)},
           {"SingleUser", "AllowAll", "DenyAll"})
NextUpdate ==
    \/ \E n \in {None, "Backend"} : CreateProject("p", n, None, "default")
    \/ \E pr \in {None, "Low"} :
            CreateIssue("p", "Bug", "boom", None, pr, "default")
    \/ \E i \in UpdateIssueIds : Comment(i, "hello", CommentIdStr(1))
    \/ \E u \in UpdateLists(UpdateProjectPairs) : Update("Projects", "p", u)
    \/ \E i \in UpdateIssueIds, u \in UpdateLists(UpdateIssuePairs) :
            Update("Issues", i, u)
    \/ \E u \in UpdateLists(UpdateCommentPairs) :
            UpdateComment(CommentIdStr(1), u)
SpecUpdate == InitUpdate /\ [][NextUpdate]_vars

(* referential integrity: every statement that writes a reference *)
IntegrityIssueIds == {IssueIdStr(p, 1) : p \in ProjectIds}
IntegrityIssueUpdates == {FieldUpdate("project", IqlString(p)) : p \in ProjectIds}
IntegrityCommentUpdates == {FieldUpdate("issue", IqlString(IssueIdStr("p", n))) : n \in 1..2}
InitIntegrity == InitOf({FixedProvider(REDB_DEFAULT_USER)}, {"AllowAll"})
NextIntegrity ==
    \/ \E p \in ProjectIds : CreateProject(p, None, None, "default")
    \/ \E p \in ProjectIds : CreateIssue(p, "Bug", "boom", None, None, "default")
    \/ \E i \in IntegrityIssueIds, u \in IntegrityIssueUpdates :
            Update("Issues", i, <<u>>)
    \/ Assign(IssueIdStr("p", 1), "redb_local")
    \/ Close(IssueIdStr("p", 1), None)
    \/ Reopen(IssueIdStr("p", 1))
    \/ \E i \in IntegrityIssueIds : Comment(i, "hello", CommentIdStr(1))
    \/ \E u \in IntegrityCommentUpdates : UpdateComment(CommentIdStr(1), <<u>>)
    \/ \E p \in ProjectIds : Delete("Projects", p, 0)
    \/ \E i \in IntegrityIssueIds : Delete("Issues", i, 0)
    \/ Delete("Comments", CommentIdStr(1), 0)
SpecIntegrity == InitIntegrity /\ [][NextIntegrity]_vars

(* comments under every pairing of the two providers *)
CommentUpdatePairs ==
    {FieldUpdate("content", IqlString("edited")),
     FieldUpdate("likes", IqlNumber(1))}
InitComment ==
    InitOf({SingleUserProvider, FixedProvider("default"),
            FixedProvider(REDB_DEFAULT_USER)}, AuthorizationProviders)
NextComment ==
    \/ CreateProject("p", None, None, "default")
    \/ CreateIssue("p", "Bug", "boom", None, None, "default")
    \/ \E s \in {"hello", "bye"}, c \in CommentIds :
            Comment(IssueIdStr("p", 1), s, c)
    \/ \E c \in CommentIds, u \in UpdateLists(CommentUpdatePairs) :
            UpdateComment(c, u)
    \/ \E c \in CommentIds : Delete("Comments", c, 0)
SpecComment == InitComment /\ [][NextComment]_vars

(* SELECT over the issues of two projects *)
SelectFilters == {NoFilter, Where("priority", "High"), Where("project", "p")}
SelectOrders == {NoOrder, OrderBy("priority", "Asc")}
SelectLimits == {NoLimit} \cup 0..MaxLimit
SelectOffsets == 0..MaxOffset
InitSelect == InitOf({SingleUserProvider}, {"SingleUser"})
NextSelect ==
    \/ \E p \in ProjectIds : CreateProject(p, None, None, "default")
    \/ \E pr \in {None, "High", "Low"} :
            CreateIssue("p", "Bug", "boom", None, pr, "default")
    \/ \E pr \in {None, "High"} :
            CreateIssue("q", "Bug", "boom", None, pr, "default")
    \/ \E f \in SelectFilters, o \in SelectOrders, l \in SelectLimits,
          k \in SelectOffsets :
            Select(SelectStatement("Issues", f, o, l, k))
    \/ \E from \in {"Projects", "Users"}, l \in SelectLimits :
            Select(SelectStatement(from, Where("id", "p"), NoOrder, l, 0))
SpecSelect == InitSelect /\ [][NextSelect]_vars

(* statements dropped at a suspension point *)
CancelUpdates == {FieldUpdate("content", IqlString("edited"))}
InitCancel ==
    InitOf({SingleUserProvider, FixedProvider(REDB_DEFAULT_USER)},
           {"SingleUser", "AllowAll"})
NextCancel ==
    \/ \E p \in ProjectIds, o \in {None, "default"} :
            CreateProject(p, None, None, o)
    \/ \E a \in {None, "default"} :
            CreateIssue("p", "Bug", "boom", None, None, a)
    \/ \E c \in CommentIds : Comment(IssueIdStr("p", 1), "hello", c)
    \/ \E c \in CommentIds, u \in CancelUpdates : UpdateComment(c, <<u>>)
    \/ \E p \in ProjectIds, o \in {None, "default"}, k \in 1..2 :
            CancelCreateProject(p, None, None, o, k)
    \/ \E a \in {None, "default"}, k \in 1..2 :
            CancelCreateIssue("p", "Bug", "boom", None, None, a, k)
    \/ \E c \in CommentIds, u \in CancelUpdates, k \in 1..2 :
            CancelUpdateComment(c, <<u>>, k)
SpecCancel == InitCancel /\ [][NextCancel]_vars

(* the WHERE clause: every comparison operator and IN *)
FilterInputs ==
    {Comparison("priority", op, IqlString("High")) : op \in ComparisonOps}
        \cup {Comparison("id", "Equal", IqlString(IssueIdStr("p", 1))),
              Comparison("priority", "Like", IqlString("%")),
              In("priority", <<IqlString("High"), IqlString("Low")>>),
              In("id", <<IqlString(IssueIdStr("p", 1))>>),
              In("id", <<IqlString(IssueIdStr("p", 1)),
                         IqlString(IssueIdStr("p", 2))>>)}
InitFilter == InitOf({SingleUserProvider}, {"SingleUser"})
NextFilter ==
    \/ CreateProject("p", None, None, "default")
    \/ \E pr \in {None, "High", "Low", "Medium"} :
            CreateIssue("p", "Bug", "boom", None, pr, "default")
    \/ \E f \in FilterInputs :
            Select(SelectStatement("Issues", f, NoOrder, NoLimit, 0))
SpecFilter == InitFilter /\ [][NextFilter]_vars

(* the parser on CREATE PROJECT *)
ClauseInputs ==
    {Clause("Name", "Backend"), Clause("Description", "about"),
     Clause("Owner", "default")}
ClauseLists == UNION {[1..n -> ClauseInputs] : n \in 0..MaxClauses}
InitParse == InitOf({SingleUserProvider}, {"SingleUser"})
NextParse ==
    \/ \E p \in ProjectIds, w \in BOOLEAN, c \in ClauseLists :
            ParseCreateProject(p, w, c)
SpecParse == InitParse /\ [][NextParse]_vars

(* two engine instances creating issues on one store *)
InitRace == InitOf({SingleUserProvider}, {"SingleUser"})
NextRace ==
    \/ \E p \in ProjectIds : CreateProject(p, None, None, "default")
    \/ \E e \in Engines, t \in {"boom", "bang"} :
            BeginCreateIssue(e, "p", t)
    \/ \E e \in Engines : NumberIssue(e)
    \/ \E e \in Engines : WriteIssue(e)
SpecRace == InitRace /\ [][NextRace]_vars

(* priorities written by CREATE ISSUE and UPDATE ISSUE, read by SELECT *)
PriorityInputs == {"High", "Low"}
InitPriority == InitOf({SingleUserProvider}, {"SingleUser"})
NextPriority ==
    \/ CreateProject("p", None, None, "default")
    \/ \E pr \in {None} \cup PriorityInputs :
            CreateIssue("p", "Bug", "boom", None, pr, "default")
    \/ \E n \in 1..2, x \in PriorityInputs :
            Update("Issues", IssueIdStr("p", n),
                   <<FieldUpdate("priority", IqlPriority(x))>>)
    \/ \E x \in PriorityInputs :
            Select(SelectStatement("Issues",
                                   Comparison("priority", "Equal", IqlPriority(x)),
                                   NoOrder, NoLimit, 0))
SpecPriority == InitPriority /\ [][NextPriority]_vars

(* SELECT ... ORDER BY in both directions over the issues of one project *)
DirectionOrders == {OrderBy("priority", "Asc"), OrderBy("priority", "Desc")}
InitDirection == InitOf({SingleUserProvider}, {"SingleUser"})
NextDirection ==
    \/ CreateProject("p", None, None, "default")
    \/ \E pr \in {None, "High", "Low"} :
            CreateIssue("p", "Bug", "boom", None, pr, "default")
    \/ \E o \in DirectionOrders, l \in SelectLimits :
            Select(SelectStatement("Issues", NoFilter, o, l, 0))
SpecDirection == InitDirection /\ [][NextDirection]_vars

(* comment ids as the targets of parsed statements *)
InitTarget == InitOf({SingleUserProvider}, {"SingleUser"})
NextTarget ==
    \/ CreateProject("p", None, None, "default")
    \/ CreateIssue("p", "Bug", "boom", None, None, "default")
    \/ \E s \in {"hello", "bye"}, c \in CommentIds :
            Comment(IssueIdStr("p", 1), s, c)
    \/ \E text \in CommentIds \cup NumberTexts : ParseUpdateComment(text)
    \/ \E text \in CommentIds \cup NumberTexts : ParseDeleteComment(text)
SpecTarget == InitTarget /\ [][NextTarget]_vars

-----------------------------------------------------------------------------
(* Properties.  pre is the store the last statement found, store the one   *)
(* it left, last.stmt the statement and last.res its result.               *)

Stmt == last.stmt
Res == last.res

\* the ids of the issues of project p in the issues table t
IssuesOf(t, p) == {i \in DOMAIN t : ProjectOf(i) = p}
\* the ids of the comments of table t whose issue field is the issue id i
CommentsOf(t, i) ==
    {c \in DOMAIN t : "issue" \in DOMAIN t[c] /\ t[c]["issue"] = Str(i)}
\* the ids p#1 .. p#k
FirstIssueIds(p, k) == {IssueIdStr(p, j) : j \in 1..k}

\* C1: SpecCreate has no DELETE; a successful CREATE ISSUE in p that finds
\* the issues of p to be exactly p#1 .. p#(k-1) (none, for k = 1) stores its
\* issue under p#k, so that the issues of p are then exactly p#1 .. p#k.
C1_KthIssueGetsNumberK ==
    (Stmt.op = "CreateIssue" /\ Res.ok)
        => LET p == Stmt.id
               k == Cardinality(IssuesOf(pre.issues, p)) + 1
           IN  IssuesOf(pre.issues, p) = FirstIssueIds(p, k - 1)
                   => IssuesOf(issues, p) = FirstIssueIds(p, k)

\* C2: DELETE PROJECT p, with no store failure, succeeds, leaves no project
\* p, no issue of p and no comment of those issues, and returns rows = 1 +
\* the number of those issues + the number of those comments.
C2_DeleteProjectCascades ==
    (Stmt.op = "Delete" /\ Stmt.kind = "Projects" /\ Stmt.fault = 0
        /\ Stmt.id \in DOMAIN pre.projects)
        => LET p == Stmt.id
               gone == IssuesOf(pre.issues, p)
               theirs == UNION {CommentsOf(pre.comments, i) : i \in gone}
           IN  /\ Res.ok
               /\ p \notin DOMAIN projects
               /\ IssuesOf(issues, p) = {}
               /\ \A i \in gone : CommentsOf(comments, i) = {}
               /\ Res.rows = 1 + Cardinality(gone) + Cardinality(theirs)

\* C3: after a successful DELETE ISSUE i on a stored issue with m comments
\* the issue row and every comment whose issue field is i are gone, every
\* other comment is as it was, and the statement returned rows = 1 + m.
C3_DeleteIssueCascades ==
    (Stmt.op = "Delete" /\ Stmt.kind = "Issues" /\ Res.ok
        /\ Stmt.id \in DOMAIN pre.issues)
        => LET i == Stmt.id
               theirs == CommentsOf(pre.comments, i)
           IN  /\ i \notin DOMAIN issues
               /\ DOMAIN issues = (DOMAIN pre.issues) \ {i}
               /\ DOMAIN comments = (DOMAIN pre.comments) \ theirs
               /\ \A c \in DOMAIN comments : comments[c] = pre.comments[c]
               /\ Res.rows = 1 + Cardinality(theirs)

\* C3 witness: a DELETE ISSUE removed the issue and one comment of it while a
\* comment of another issue stayed.
C3_Witness ==
    /\ Stmt.op = "Delete" /\ Stmt.kind = "Issues" /\ Res.ok
    /\ Stmt.id \in DOMAIN pre.issues
    /\ Res.rows = 2
    /\ \E c \in DOMAIN comments : comments[c]["issue"] # Str(Stmt.id)

\* C4: a DELETE that fails has committed none of its removals: the tables
\* hold the rows they held before the statement.
C4_FailedDeleteCommitsNothing ==
    (Stmt.op = "Delete" /\ ~Res.ok)
        => /\ projects = pre.projects
           /\ issues = pre.issues
           /\ comments = pre.comments

\* C5: CREATE PROJECT p, with any WITH clause, on a store that holds project
\* p (created and not deleted since) returns ProjectAlreadyExists(p) and
\* leaves the store, the record of p included, as it was.
C5_SecondCreateProjectRejected ==
    (Stmt.op = "CreateProject" /\ Stmt.id \in DOMAIN pre.projects)
        => /\ Res = Err("ProjectAlreadyExists", Stmt.id, "")
           /\ store = pre

\* C5 witness: a CREATE PROJECT p WITH NAME ... was rejected for a stored
\* project p that has no name.
C5_Witness ==
    /\ Stmt.op = "CreateProject" /\ Res.err = "ProjectAlreadyExists"
    /\ Stmt.name = "Backend"
    /\ "name" \notin DOMAIN projects[Stmt.id]

\* C6: on a fresh store, with the single-user provider, CREATE PROJECT p
\* without OWNER returns rows = 1 and stores p with owner "default".
C6_FreshCreateProjectSucceeds ==
    (Stmt.op = "CreateProject" /\ Stmt.owner = None
        /\ up = SingleUserProvider /\ pre.tables = {})
        => /\ Res = Rows(1)
           /\ Stmt.id \in DOMAIN projects
           /\ projects[Stmt.id]["owner"] = Str("default")

\* the issue i of table t reads as an IssueInfo whose status is Closed{..}
ReadsClosed(t, i) == i \in DOMAIN t /\ IssueDecodable(t[i]) /\ IsClosed(t[i])
\* the issue i of table t reads as an IssueInfo whose status is not Closed
ReadsOpen(t, i) == i \in DOMAIN t /\ IssueDecodable(t[i]) /\ ~IsClosed(t[i])

\* C7: CLOSE ISSUE i on an issue that reads as Closed{r} returns
\* IssueAlreadyClosed(i, r) with the stored reason r and leaves the store as
\* it was; and a successful CLOSE leaves the issue reading as Closed with the
\* statement's reason (Done by default), so a second CLOSE fails this way.
C7_CloseOfClosedIssue ==
    /\ (Stmt.op = "Close" /\ ReadsClosed(pre.issues, Stmt.id))
        => /\ Res = Err("IssueAlreadyClosed", Stmt.id,
                        pre.issues[Stmt.id]["status"].s)
           /\ store = pre
    /\ (Stmt.op = "Close" /\ Res.ok)
        => /\ ReadsClosed(issues, Stmt.id)
           /\ issues[Stmt.id]["status"].s
                = (IF Stmt.reason = None THEN "Done" ELSE Stmt.reason)

\* C7 witness: a CLOSE was rejected with IssueAlreadyClosed naming a reason
\* other than the one the rejected statement gave.
C7_Witness ==
    /\ Stmt.op = "Close" /\ Res.err = "IssueAlreadyClosed"
    /\ Stmt.reason = "Duplicate" /\ Res.b = "WontFix"

\* C8: REOPEN ISSUE i on an issue that reads as Closed returns rows = 1 and
\* sets its status to Open, changing nothing else; on an issue that reads as
\* Open, Assigned or Blocked it returns rows = 0 and changes nothing.
C8_ReopenOnlyWhenClosed ==
    /\ (Stmt.op = "Reopen" /\ ReadsClosed(pre.issues, Stmt.id))
        => /\ Res = Rows(1)
           /\ store = [pre EXCEPT !.issues[Stmt.id] =
                        [Reencode(@) EXCEPT !["status"] = Str("Open")]]
    /\ (Stmt.op = "Reopen" /\ ReadsOpen(pre.issues, Stmt.id))
        => /\ pre.issues[Stmt.id]["status"].s \in OpenStatuses
           /\ Res = Rows(0)
           /\ store = pre

\* C8 witness: one REOPEN reopened a closed issue ...
C8_Witness ==
    /\ Stmt.op = "Reopen" /\ Res = Rows(1)
    /\ ReadsClosed(pre.issues, Stmt.id)
    /\ issues[Stmt.id]["status"] = Str("Open")

\* ... and another REOPEN found a Blocked issue and returned rows = 0.
C8_WitnessNoop ==
    /\ Stmt.op = "Reopen" /\ Res = Rows(0)
    /\ pre.issues[Stmt.id]["status"] = Str("Blocked")

DeclaredFields(kind) ==
    CASE kind = "Projects" -> ProjectFields
      [] kind = "Issues" -> IssueFields
      [] kind = "Comments" -> CommentFields

\* the fields a SET list names
FieldsOf(updates) == {updates[j].field : j \in 1..Len(updates)}

\* C9: an UPDATE PROJECT or UPDATE ISSUE of a stored record whose SET list
\* names a field that its record type does not declare returns
\* FieldNotFound(f) for such a field f of the list and leaves the store as
\* it was.
C9_UndeclaredFieldRejected ==
    (Stmt.op = "Update" /\ Stmt.kind \in {"Projects", "Issues"}
        /\ get_as(pre, Stmt.kind, Stmt.id).ok
        /\ FieldsOf(Stmt.updates) \ DeclaredFields(Stmt.kind) # {})
        => /\ Res.err = "FieldNotFound"
           /\ Res.a \in FieldsOf(Stmt.updates) \ DeclaredFields(Stmt.kind)
           /\ store = pre

\* C10: UPDATE PROJECT or UPDATE ISSUE of a stored record with the one
\* assignment f = v, f a declared field of the record type, returns rows = 1
\* and leaves the record holding f = v.
C10_DeclaredFieldUpdated ==
    (Stmt.op = "Update" /\ Stmt.kind \in {"Projects", "Issues"}
        /\ get_as(pre, Stmt.kind, Stmt.id).ok
        /\ Len(Stmt.updates) = 1
        /\ Stmt.updates[1].field \in DeclaredFields(Stmt.kind))
        => /\ Res = Rows(1)
           /\ LET r == store[get_table(Stmt.kind)][Stmt.id]
                  f == Stmt.updates[1].field
              IN  f \in DOMAIN r /\ r[f] = to_facet(Stmt.updates[1].value)

\* C11: in every reachable state, each stored issue's project field names a
\* project that is in the projects table.
C11_IssueProjectExists ==
    \A i \in DOMAIN issues :
        /\ "project" \in DOMAIN issues[i]
        /\ issues[i]["project"].t = "string"
        /\ exists(store, "Projects", issues[i]["project"].s)

\* C12: in every reachable state, each stored comment's issue field names an
\* issue that is in the issues table.
C12_CommentIssueExists ==
    \A c \in DOMAIN comments :
        /\ "issue" \in DOMAIN comments[c]
        /\ comments[c]["issue"].t = "string"
        /\ exists(store, "Issues", comments[c]["issue"].s)

\* the principal of the last statement and the provider's decision on it
Principal == get_user(up, "")
Decision == check_authorization(ap, Principal)

\* C13: an UPDATE COMMENT c on a comment that reads as a CommentInfo is
\* rejected with PermissionDenied, and the store left as it was, whenever the
\* provider does not answer Authorized or the principal is not the comment's
\* author; the store changes only when both checks pass.
C13_UpdateCommentChecked ==
    (Stmt.op = "Update" /\ Stmt.kind = "Comments"
        /\ get(pre, "Comments", Stmt.id).ok) =>
        LET allowed == /\ Decision = "Authorized"
                       /\ pre.comments[Stmt.id]["author"] = UserValue(Principal)
        IN  /\ ~allowed => ~Res.ok /\ Res.err = "PermissionDenied" /\ store = pre
            /\ store # pre => allowed /\ Res.ok

\* an authorized principal who is not the author was turned away
C13_Witness ==
    /\ Stmt.op = "Update" /\ Stmt.kind = "Comments"
    /\ get(pre, "Comments", Stmt.id).ok
    /\ Decision = "Authorized"
    /\ pre.comments[Stmt.id]["author"] # UserValue(Principal)
    /\ Res.err = "PermissionDenied"
    /\ store = pre

\* the author, authorized, changed the comment
C13_WitnessWritten ==
    /\ Stmt.op = "Update" /\ Stmt.kind = "Comments"
    /\ Res.ok /\ store # pre

\* the statements that write a comment
WritesComment ==
    \/ Stmt.op = "Comment"
    \/ Stmt.op = "Update" /\ Stmt.kind = "Comments"
    \/ Stmt.op = "Delete" /\ Stmt.kind = "Comments"

\* C14: a statement that writes a comment (COMMENT ON ISSUE, UPDATE COMMENT,
\* DELETE COMMENT) leaves the comments table as it was when the authorization
\* provider's decision on the principal is not Authorized.
C14_CommentWritesAuthorized ==
    (WritesComment /\ Decision # "Authorized") => comments = pre.comments

\* C15: a successful COMMENT ON ISSUE i WITH s returns rows = 1 and adds
\* exactly one comment, with issue = i, content = s and author the principal
\* get_user("") names.
C15_CommentAuthorIsPrincipal ==
    (Stmt.op = "Comment" /\ Res.ok) =>
        /\ Res.rows = 1
        /\ \E c \in DOMAIN comments \ DOMAIN pre.comments :
            /\ DOMAIN comments = DOMAIN pre.comments \cup {c}
            /\ \A d \in DOMAIN pre.comments : comments[d] = pre.comments[d]
            /\ comments[c]["issue"] = Str(Stmt.id)
            /\ comments[c]["content"] = Str(Stmt.content)
            /\ comments[c]["author"] = UserValue(Principal)

\* the table a SELECT read, in the order of its iteration, and what came back
Selected == Stmt.select
SelectTable == pre[get_table(Selected.from)]
SelectIter ==
    IF table_exists(pre, get_table(Selected.from))
    THEN SortedKeys(DOMAIN SelectTable) ELSE <<>>
ResultKeys == [i \in 1..Len(Res.info.entries) |-> Res.info.entries[i].key]
\* the position of key k in the iteration
IterPos(k) == CHOOSE i \in 1..Len(SelectIter) : SelectIter[i] = k
\* the positions of the iteration inside the OFFSET/LIMIT window
InWindow(i) ==
    /\ i > Selected.offset
    /\ Selected.limit # NoLimit => i <= Selected.offset + Selected.limit
Matches(k) ==
    ~Selected.filter.some
        \/ matches(Selected.filter, k, SelectTable[k])

\* C16: the rows of a successful SELECT are exactly the rows of the
\* OFFSET/LIMIT window over the table iteration that match WHERE, each once:
\* a row outside the window is not returned even when it matches, and
\* without ORDER BY the rows come in the order of the iteration.
C16_WindowThenFilter ==
    (Stmt.op = "Select" /\ Res.ok) =>
        /\ {ResultKeys[i] : i \in 1..Len(ResultKeys)}
            = {SelectIter[i] : i \in {j \in 1..Len(SelectIter) :
                                        InWindow(j) /\ Matches(SelectIter[j])}}
        /\ \A i, j \in 1..Len(ResultKeys) :
            i < j => /\ ResultKeys[i] # ResultKeys[j]
                     /\ ~Selected.order_by.some =>
                            IterPos(ResultKeys[i]) < IterPos(ResultKeys[j])

\* a row that matches WHERE lay outside the window and was not returned
C16_Witness ==
    /\ Stmt.op = "Select" /\ Res.ok
    /\ Selected.filter.some
    /\ \E j \in 1..Len(SelectIter) :
        /\ ~InWindow(j)
        /\ Matches(SelectIter[j])
        /\ \A i \in 1..Len(ResultKeys) : ResultKeys[i] # SelectIter[j]
    /\ Len(ResultKeys) > 0

\* C17: in the result of a successful SELECT ... ORDER BY f (ascending),
\* no row lacking f comes before a row having f, the rows having f are in
\* the order of their values of f, and rows that tie keep the order of the
\* iteration.
C17_OrderByPlacesMissingLast ==
    (Stmt.op = "Select" /\ Res.ok /\ Selected.order_by.some
        /\ Selected.order_by.direction = "Asc") =>
        \A i, j \in 1..Len(ResultKeys) :
            i < j =>
                LET f == Selected.order_by.field
                    a == SelectTable[ResultKeys[i]]
                    b == SelectTable[ResultKeys[j]]
                    tie == IF f \in DOMAIN a /\ f \in DOMAIN b
                           THEN a[f] = b[f]
                           ELSE f \notin DOMAIN a /\ f \notin DOMAIN b
                IN  /\ f \in DOMAIN b => f \in DOMAIN a
                    /\ (f \in DOMAIN a /\ f \in DOMAIN b) => ~ValueLess(b[f], a[f])
                    /\ tie => IterPos(ResultKeys[i]) < IterPos(ResultKeys[j])

\* C18: a successful SELECT on projects, issues or comments returns rows = 0
\* and a data payload that is present and holds the selected (id, record)
\* pairs.
C18_SelectReturnsData ==
    (Stmt.op = "Select" /\ Res.ok) =>
        /\ Res.rows = 0
        /\ Res.data.some
        /\ Res.data.entries
            = Entries(SelectTable, select_rows(SelectTable, Selected))

\* the number of records of table t that are no longer in table u
Removed(t, u) == Cardinality(DOMAIN t \ DOMAIN u)

\* C19: the rows a successful DELETE returns is the number of records it
\* removed from the projects, issues and comments tables; a DELETE of an id
\* that is not stored removes nothing and returns rows = 0.
C19_RowsCountRemovals ==
    (Stmt.op = "Delete" /\ Res.ok) =>
        Res.rows = Removed(pre.projects, projects) + Removed(pre.issues, issues)
                    + Removed(pre.comments, comments)

\* C20: a statement dropped at one of its suspension points (inside get_user
\* or check_authorization) leaves the store exactly as it was when the
\* statement began.
C20_CancelLeavesStore ==
    Stmt.point # 0 => store = pre

\* an UPDATE COMMENT by the authorized author, which would have changed the
\* comment, was dropped inside check_authorization
C20_Witness ==
    /\ Stmt.op = "Update" /\ Stmt.point = 2
    /\ Decision = "Authorized"
    /\ is_author(pre.comments[Stmt.id], Principal)
    /\ update(pre, "Comments", Stmt.id, Stmt.updates).s # pre
    /\ store = pre

\* a CREATE PROJECT that would have stored the project was dropped inside
\* get_user
C20_WitnessCreate ==
    /\ Stmt.op = "CreateProject" /\ Stmt.point = 1
    /\ exists(pre, "Users", Principal)
    /\ store = pre

\* C21: after a successful UPDATE of a project, issue or comment whose record
\* decoded as the record type of its entity, the stored record still decodes
\* as that type, so a typed read of it succeeds.
C21_UpdateKeepsRecordTyped ==
    (Stmt.op = "Update" /\ Res.ok /\ get(pre, Stmt.kind, Stmt.id).ok) =>
        /\ Decodable(Stmt.kind, store[get_table(Stmt.kind)][Stmt.id])
        /\ get(store, Stmt.kind, Stmt.id).ok

\* the keys a SELECT returned, as a set
ResultSet == {ResultKeys[i] : i \in 1..Len(ResultKeys)}

\* C22: for a SELECT without windowing whose WHERE is a comparison on a field
\* other than id, a row that lacks the field is returned iff the operator is
\* != (for =, >, <, >=, <= and LIKE it is not returned).
C22_MissingFieldComparison ==
    (Stmt.op = "Select" /\ Res.ok /\ Selected.filter.some
        /\ Selected.filter.kind = "Comparison" /\ Selected.filter.field # "id"
        /\ Selected.limit = NoLimit /\ Selected.offset = 0) =>
        \A k \in DOMAIN SelectTable :
            Selected.filter.field \notin DOMAIN SelectTable[k] =>
                (k \in ResultSet <=> Selected.filter.op = "NotEqual")

\* C23: for a SELECT without windowing whose WHERE is field IN (values), a
\* row is returned iff field = v matches it for some v of the list; the field
\* may be id.
C23_InIsAnyEqual ==
    (Stmt.op = "Select" /\ Res.ok /\ Selected.filter.some
        /\ Selected.filter.kind = "In"
        /\ Selected.limit = NoLimit /\ Selected.offset = 0) =>
        \A k \in DOMAIN SelectTable :
            k \in ResultSet <=>
                \E i \in 1..Len(Selected.filter.values) :
                    matches(Comparison(Selected.filter.field, "Equal",
                                       Selected.filter.values[i]),
                            k, SelectTable[k])

\* the value of the last clause with this key, None when there is none
RECURSIVE LastValue(_, _)
LastValue(clauses, key) ==
    IF clauses = <<>> THEN None
    ELSE IF clauses[Len(clauses)].key = key THEN clauses[Len(clauses)].value
    ELSE LastValue(SubSeq(clauses, 1, Len(clauses) - 1), key)

\* C24: CREATE PROJECT p WITH followed by a non-empty list of NAME,
\* DESCRIPTION and OWNER pairs in any order parses to a Create-Project
\* statement that carries their values; WITH followed by no pair is rejected
\* with MissingClause.
C24_CreateProjectClauses ==
    (Stmt.op = "ParseCreateProject" /\ Stmt.with) =>
        IF Stmt.clauses = <<>> THEN ~Res.ok /\ Res.err = "MissingClause"
        ELSE /\ Res.ok
             /\ Stmt.name = LastValue(Stmt.clauses, "Name")
             /\ Stmt.description = LastValue(Stmt.clauses, "Description")
             /\ Stmt.owner = LastValue(Stmt.clauses, "Owner")

\* C25: a successful CREATE ISSUE adds exactly one issue to the issues table
\* and leaves every issue that was stored before as it was, also in states
\* reached after DELETE ISSUE.
C25_CreateIssueNeverOverwrites ==
    (Stmt.op = "CreateIssue" /\ Res.ok) =>
        /\ Cardinality(DOMAIN issues) = Cardinality(DOMAIN pre.issues) + 1
        /\ \A i \in DOMAIN pre.issues :
            i \in DOMAIN issues /\ issues[i] = pre.issues[i]

C27_MissingIssueIsItemNotFound ==
    (Stmt.op \in {"Close", "Reopen", "Assign"}
        /\ Stmt.id \notin DOMAIN pre.issues) =>
        /\ ~Res.ok /\ Res.err = "ItemNotFound" /\ Res.b = Stmt.id
        /\ store = pre

\* the stored issue r has priority x: as CREATE ISSUE .. PRIORITY x writes
\* it, or as UPDATE ISSUE .. SET priority = x writes it
HasPriority(r, x) ==
    "priority" \in DOMAIN r
        /\ r["priority"] \in {Str(x), to_facet(IqlPriority(x))}

\* C28: SELECT * FROM issues WHERE priority = x succeeds and returns exactly
\* the issues whose priority is x, whether CREATE ISSUE or UPDATE ISSUE gave
\* them that priority.
C28_PriorityFilterFindsPriority ==
    (Stmt.op = "Select" /\ Selected.from = "Issues" /\ Selected.filter.some
        /\ Selected.filter.kind = "Comparison"
        /\ Selected.filter.field = "priority" /\ Selected.filter.op = "Equal"
        /\ Selected.filter.values[1].k = "Priority"
        /\ Selected.limit = NoLimit /\ Selected.offset = 0) =>
        /\ Res.ok
        /\ \A k \in DOMAIN SelectTable :
            k \in ResultSet
                <=> HasPriority(SelectTable[k], Selected.filter.values[1].s)

\* C29: the id of every stored comment is accepted by the parser as the
\* target of UPDATE COMMENT and of DELETE COMMENT.
C29_CommentIdIsParsedAsTarget ==
    (Stmt.op \in {"ParseUpdate", "ParseDelete"} /\ Stmt.kind = "Comments"
        /\ Stmt.id \in DOMAIN comments) => Res.ok

\* C30: in the result of a successful SELECT ... ORDER BY f DESC the rows
\* that have f are in non-increasing order of their values of f.
C30_DescIsNonIncreasing ==
    (Stmt.op = "Select" /\ Res.ok /\ Selected.order_by.some
        /\ Selected.order_by.direction = "Desc") =>
        \A i, j \in 1..Len(ResultKeys) :
            i < j =>
                LET f == Selected.order_by.field
                    a == SelectTable[ResultKeys[i]]
                    b == SelectTable[ResultKeys[j]]
                IN  (f \in DOMAIN a /\ f \in DOMAIN b) => ~ValueLess(a[f], b[f])

=============================================================================
